---- MODULE Spec2Model ----
(***************************************************************************)
(* Model of the node repository of the internal IT wiki (src/app/main.py): *)
(* the content tree under CONTENT_ROOT, the descriptors (meta.json), the   *)
(* documents (.md files) and the index artifact (.index.json), with the    *)
(* three mutating request handlers and the search handler; then the page   *)
(* handlers, the upload handler, and two server processes on one content   *)
(* root.                                                                   *)
(*                                                                         *)
(* Text is a sequence of Unicode code points (a Python str), so that       *)
(* slugify, the address parser, the table rendering and the substring      *)
(* search are computed character by character as the code computes them.   *)
(* A directory is the sequence of its path segments below CONTENT_ROOT;    *)
(* <<>> is CONTENT_ROOT itself.                                            *)
(***************************************************************************)
EXTENDS Integers, Sequences, FiniteSets, TLC

VARIABLES
    dirs,    \* the directories below CONTENT_ROOT (set of segment sequences)
    meta,    \* directory -> descriptor (the parsed meta.json), where one exists
    docs,    \* directory -> (file name -> body) for the *.md files in it
    index,   \* the list persisted at INDEX_PATH
    now,     \* the reading of datetime.utcnow()
    ops,     \* number of steps taken (bounds the exploration)
    ret,     \* the response to the last request
    workers  \* server process -> its position in the request it is serving

vars == <<dirs, meta, docs, index, now, ops, ret, workers>>

----------------------------------------------------------------------------
(* Bounds of the exploration *)

\* every step (a request or a tick of the clock) counts
MaxOps == 4

----------------------------------------------------------------------------
(* Text helpers *)

NL == <<10>>
Slash == <<47>>

IsPrefixAt(s, q, i) ==
    /\ i + Len(q) - 1 <= Len(s)
    /\ \A k \in 1..Len(q) : s[i + k - 1] = q[k]

\* Python's "q in s" on strings
Contains(s, q) == \E i \in 1..(Len(s) + 1) : IsPrefixAt(s, q, i)

RECURSIVE Join(_, _)
\* sep.join(parts)
Join(parts, sep) ==
    IF Len(parts) = 0 THEN <<>>
    ELSE IF Len(parts) = 1 THEN parts[1]
    ELSE parts[1] \o sep \o Join(Tail(parts), sep)

RECURSIVE Flatten(_)
Flatten(parts) ==
    IF Len(parts) = 0 THEN <<>> ELSE parts[1] \o Flatten(Tail(parts))

RECURSIVE Split(_, _)
\* s.split(c) for a one-character separator: always at least one piece
Split(s, c) ==
    IF \A i \in 1..Len(s) : s[i] # c THEN <<s>>
    ELSE LET i == CHOOSE i \in 1..Len(s) :
                    s[i] = c /\ \A j \in 1..(i - 1) : s[j] # c
         IN <<SubSeq(s, 1, i - 1)>> \o Split(SubSeq(s, i + 1, Len(s)), c)

\* str.lower() on one character: ASCII A-Z, Latin-1 U+00C0..U+00DE (but the
\* sign U+00D7), Cyrillic U+0410..U+042F and U+0400..U+040F have a lowercase
\* form; nothing else in the model's alphabet
LowerChar(c) ==
    IF c >= 65 /\ c <= 90 THEN c + 32
    ELSE IF c >= 192 /\ c <= 222 /\ c # 215 THEN c + 32
    ELSE IF c >= 1040 /\ c <= 1071 THEN c + 32
    ELSE IF c >= 1024 /\ c <= 1039 THEN c + 80
    ELSE c

Lower(s) == [i \in 1..Len(s) |-> LowerChar(s[i])]

RECURSIVE ToDecimal(_)
\* str(n) for n >= 0
ToDecimal(n) ==
    IF n < 10 THEN <<48 + n>> ELSE ToDecimal(n \div 10) \o <<48 + (n % 10)>>

RECURSIVE SeqOf(_)
\* An enumeration of a finite set in an order fixed by the set alone: the
\* order in which the operating system lists a directory
SeqOf(S) ==
    IF S = {} THEN <<>>
    ELSE LET x == CHOOSE x \in S : TRUE IN <<x>> \o SeqOf(S \ {x})

\* dict.get(key, default)
Get(d, key, default) == IF key \in DOMAIN d THEN d[key] ELSE default

----------------------------------------------------------------------------
(* Program constants *)

\* SERVICE_FILES, in insertion order: file name and heading
SERVICE_FILES == <<
    [file |-> "overview.md",        head |-> <<1054, 1073, 1079, 1086, 1088>>],
    [file |-> "passport.md",        head |-> <<1055, 1072, 1089, 1087, 1086, 1088, 1090>>],
    [file |-> "architecture.md",    head |-> <<1040, 1088, 1093, 1080, 1090, 1077, 1082, 1090, 1091, 1088, 1072>>],
    [file |-> "operations.md",      head |-> <<1069, 1082, 1089, 1087, 1083, 1091, 1072, 1090, 1072, 1094, 1080, 1103>>],
    [file |-> "incidents.md",       head |-> <<1048, 1085, 1094, 1080, 1076, 1077, 1085, 1090, 1099>>],
    [file |-> "docs.md",            head |-> <<1044, 1086, 1082, 1091, 1084, 1077, 1085, 1090, 1072, 1094, 1080, 1103>>],
    [file |-> "service-network.md", head |-> <<1057, 1077, 1090, 1100, 32, 1089, 1077, 1088, 1074, 1080, 1089, 1072>> ] >>

ServiceFileNames == {SERVICE_FILES[i].file : i \in 1..Len(SERVICE_FILES)}

\* mutant: a company also takes sections
ALLOWED_CHILDREN_CompanyTakesSections == [
    root     |-> {"company"},
    company  |-> {"dc", "section"},
    dc       |-> {"section", "document", "service", "server", "network"},
    section  |-> {"section", "document", "service", "server", "network"},
    document |-> {},
    service  |-> {},
    server   |-> {},
    network  |-> {} ]

ALLOWED_CHILDREN == [
    root     |-> {"company"},
    company  |-> {"dc"},
    dc       |-> {"section", "document", "service", "server", "network"},
    section  |-> {"section", "document", "service", "server", "network"},
    document |-> {},
    service  |-> {},
    server   |-> {},
    network  |-> {} ]

\* the set tested in auto_parent_path
LeafTypes == {"document", "service", "server", "network"}

\* "| Name | IP | Mask | Gateway | DNS |"
TableHeader == <<124, 32, 78, 97, 109, 101, 32, 124, 32, 73, 80, 32, 124, 32, 77, 97, 115, 107, 32, 124, 32, 71, 97, 116, 101, 119, 97, 121, 32, 124, 32, 68, 78, 83, 32, 124>>
\* "| --- | --- | --- | --- | --- |"
TableSeparator == <<124, 32, 45, 45, 45, 32, 124, 32, 45, 45, 45, 32, 124, 32, 45, 45, 45, 32, 124, 32, 45, 45, 45, 32, 124, 32, 45, 45, 45, 32, 124>>

----------------------------------------------------------------------------
(* Slug generator *)

\* unidecode() on one character: ASCII is kept, U+00C0 is "A", U+00E0 is "a",
\* U+0416 is "Zh", U+0436 is "zh"
UnidecodeChar(c) ==
    IF c < 128 THEN <<c>>
    ELSE IF c = 192 THEN <<65>>
    ELSE IF c = 224 THEN <<97>>
    ELSE IF c = 1046 THEN <<90, 104>>
    ELSE IF c = 1078 THEN <<122, 104>>
    ELSE <<>>

Unidecode(s) == Flatten([i \in 1..Len(s) |-> UnidecodeChar(s[i])])

\* the class [a-z0-9]
IsAlnum(c) == (c >= 97 /\ c <= 122) \/ (c >= 48 /\ c <= 57)

RECURSIVE SubRuns(_, _)
\* re.sub(r"[^a-z0-9]+", "-", s): inRun says the previous character was
\* part of the run being replaced
SubRuns(s, inRun) ==
    IF Len(s) = 0 THEN <<>>
    ELSE IF IsAlnum(Head(s)) THEN <<Head(s)>> \o SubRuns(Tail(s), FALSE)
    ELSE IF inRun THEN SubRuns(Tail(s), TRUE)
    ELSE <<45>> \o SubRuns(Tail(s), TRUE)

RECURSIVE StripHyphens(_)
\* str.strip("-")
StripHyphens(s) ==
    IF Len(s) = 0 THEN s
    ELSE IF Head(s) = 45 THEN StripHyphens(Tail(s))
    ELSE IF s[Len(s)] = 45 THEN StripHyphens(SubSeq(s, 1, Len(s) - 1))
    ELSE s

slugify(title) ==
    LET base == Lower(Unidecode(title))
        cleaned == StripHyphens(SubRuns(base, FALSE))
    IN IF cleaned = <<>> THEN <<105, 116, 101, 109>> ELSE cleaned

\* mutant: the existence test never sees the sibling
Exists_Never(ds, parent, name) == FALSE

\* (parent / name).exists(): a segment holds no ".", so it never names one of
\* the files meta.json or *.md of the parent
Exists(ds, parent, name) == Append(parent, name) \in ds

RECURSIVE UniqueFrom(_, _, _, _)
\* the loop of ensure_unique_slug, entered with candidate = slug-counter
UniqueFrom(ds, parent, slug, counter) ==
    LET candidate == slug \o <<45>> \o ToDecimal(counter)
    IN IF Exists(ds, parent, candidate)
       THEN UniqueFrom(ds, parent, slug, counter + 1)
       ELSE candidate

\* mutant: the counter starts at 1
ensure_unique_slug_FromOne(ds, parent, slug) ==
    IF Exists(ds, parent, slug) THEN UniqueFrom(ds, parent, slug, 1) ELSE slug

ensure_unique_slug(ds, parent, slug) ==
    IF Exists(ds, parent, slug) THEN UniqueFrom(ds, parent, slug, 2) ELSE slug

----------------------------------------------------------------------------
(* Path resolver *)

\* mutant: the pattern also accepts the dot
IsSegment_AcceptsDot(p) ==
    Len(p) > 0 /\ \A i \in 1..Len(p) : IsAlnum(p[i]) \/ p[i] = 45 \/ p[i] = 46

\* re.fullmatch(r"[a-z0-9-]+", p)
IsSegment(p) == Len(p) > 0 /\ \A i \in 1..Len(p) : IsAlnum(p[i]) \/ p[i] = 45

\* [p for p in path_str.split("/") if p]
Parts(path_str) == SelectSeq(Split(path_str, 47), LAMBDA p : p # <<>>)

\* CONTENT_ROOT as the segments of its absolute path: opt, wiki, content
CONTENT_ROOT == <<<<111, 112, 116>>, <<119, 105, 107, 105>>,
                  <<99, 111, 110, 116, 101, 110, 116>>>>

RECURSIVE ResolvePath(_, _)
\* Path.resolve(strict=False) on a store that holds no symbolic link: "."
\* is dropped and ".." steps to the parent, the filesystem root being its
\* own parent
ResolvePath(done, rest) ==
    IF rest = <<>> THEN done
    ELSE IF Head(rest) = <<46>> THEN ResolvePath(done, Tail(rest))
    ELSE IF Head(rest) = <<46, 46>>
         THEN ResolvePath(IF done = <<>> THEN <<>> ELSE SubSeq(done, 1, Len(done) - 1),
                          Tail(rest))
    ELSE ResolvePath(Append(done, Head(rest)), Tail(rest))

\* CONTENT_ROOT in resolved.parents or resolved == CONTENT_ROOT
InsideRoot(resolved) ==
    /\ Len(resolved) >= Len(CONTENT_ROOT)
    /\ SubSeq(resolved, 1, Len(CONTENT_ROOT)) = CONTENT_ROOT

\* safe_node_path: the directory (dir: its segments below CONTENT_ROOT,
\* resolved: its absolute path), or the error raised
safe_node_path(path_str) ==
    IF path_str = <<>> THEN [ok |-> TRUE, dir |-> <<>>, resolved |-> CONTENT_ROOT]
    ELSE LET parts == Parts(path_str)
         IN IF \E i \in 1..Len(parts) : ~IsSegment(parts[i])
            THEN [ok |-> FALSE, error |-> "InvalidAddress"]
            ELSE LET resolved == ResolvePath(<<>>, CONTENT_ROOT \o parts)
                 IN IF ~InsideRoot(resolved)
                    THEN [ok |-> FALSE, error |-> "InvalidAddress"]
                    ELSE [ok |-> TRUE,
                          dir |-> SubSeq(resolved, Len(CONTENT_ROOT) + 1, Len(resolved)),
                          resolved |-> resolved]

\* node_relative_path
node_relative_path(dir) == Join(dir, Slash)

Parent(dir) == SubSeq(dir, 1, Len(dir) - 1)

----------------------------------------------------------------------------
(* Node repository *)

\* d[key] = value on a dict
Put(d, key, value) ==
    [k \in (DOMAIN d) \cup {key} |-> IF k = key THEN value ELSE d[k]]

EmptyDict == <<>>

\* (node_dir / "meta.json").exists()
HasMeta(mt, dir) == dir \in DOMAIN mt

\* mutant: any of the seven types may be created anywhere
validate_child_AnyType(parent_type, child_type) ==
    child_type \in UNION {ALLOWED_CHILDREN[p] : p \in DOMAIN ALLOWED_CHILDREN}

\* validate_child: TRUE when no exception is raised
validate_child(parent_type, child_type) ==
    child_type \in Get(ALLOWED_CHILDREN, parent_type, {})

\* mutant: the network document gets a heading like the other six
DefaultServiceBody_HeadingOnly(file_name) ==
    LET i == CHOOSE i \in 1..Len(SERVICE_FILES) : SERVICE_FILES[i].file = file_name
    IN <<35, 32>> \o SERVICE_FILES[i].head \o NL

\* the body ensure_default_files writes for a fixed service document
DefaultServiceBody(file_name) ==
    IF file_name = "service-network.md"
    THEN TableHeader \o NL \o TableSeparator \o NL
    ELSE LET i == CHOOSE i \in 1..Len(SERVICE_FILES) : SERVICE_FILES[i].file = file_name
         IN <<35, 32>> \o SERVICE_FILES[i].head \o NL

\* mutant: the index document is written whether or not it exists
ensure_default_files_RewritesIndex(files, m) ==
    LET withIndex == Put(files, "index.md", <<35, 32>> \o Get(m, "title", <<>>) \o NL)
    IN IF Get(m, "type", "None") = "service"
       THEN [f \in (DOMAIN withIndex) \cup ServiceFileNames |->
                IF f \in DOMAIN withIndex THEN withIndex[f] ELSE DefaultServiceBody(f)]
       ELSE withIndex

\* ensure_default_files on the files of one directory: the files after it
ensure_default_files(files, m) ==
    LET withIndex ==
            IF "index.md" \in DOMAIN files THEN files
            ELSE Put(files, "index.md", <<35, 32>> \o Get(m, "title", <<>>) \o NL)
    IN IF Get(m, "type", "None") = "service"
       THEN [f \in (DOMAIN withIndex) \cup ServiceFileNames |->
                IF f \in DOMAIN withIndex THEN withIndex[f] ELSE DefaultServiceBody(f)]
       ELSE withIndex

\* mutant: the stamp also overwrites created
update_meta_StampsCreated(m, clock) == Put(Put(m, "updated", clock), "created", clock)

\* mutant: the descriptor is written back without a new stamp
update_meta_NoStamp(m, clock) == m

\* update_meta: the descriptor written
update_meta(m, clock) == Put(m, "updated", clock)

\* the entry rebuild_index appends for one meta.json
IndexEntry(mt, dc, dir) ==
    LET files == Get(dc, dir, EmptyDict)
        names == SeqOf(DOMAIN files)
        texts == [i \in 1..Len(names) |-> files[names[i]]]
    IN [path    |-> node_relative_path(dir),
        title   |-> Get(mt[dir], "title", <<>>),
        type    |-> Get(mt[dir], "type", ""),
        content |-> Join(texts, NL),
        updated |-> Get(mt[dir], "updated", "None")]

\* rebuild_index: the list written to INDEX_PATH
rebuild_index(mt, dc) ==
    LET found == SeqOf(DOMAIN mt)
    IN [i \in 1..Len(found) |-> IndexEntry(mt, dc, found[i])]

\* mutant: a leaf is not redirected to its parent
auto_parent_path_NoRetarget(mt, context) ==
    IF context = <<>> THEN [ok |-> TRUE, dir |-> <<>>]
    ELSE IF ~HasMeta(mt, context) THEN [ok |-> FALSE, error |-> "NodeNotFound"]
    ELSE [ok |-> TRUE, dir |-> context]

\* auto_parent_path: the directory the child is created in, or the error
auto_parent_path(mt, context) ==
    IF context = <<>> THEN [ok |-> TRUE, dir |-> <<>>]
    ELSE IF ~HasMeta(mt, context) THEN [ok |-> FALSE, error |-> "NodeNotFound"]
    ELSE IF Get(mt[context], "type", "None") \in LeafTypes
         THEN [ok |-> TRUE, dir |-> Parent(context)]
         ELSE [ok |-> TRUE, dir |-> context]

\* create_node up to validate_child: the parent directory, or the error
CreateTarget(mt, parent_path_str, node_type) ==
    LET resolved == safe_node_path(parent_path_str)
    IN IF ~resolved.ok THEN resolved
       ELSE LET auto == auto_parent_path(mt, resolved.dir)
            IN IF ~auto.ok THEN auto
               ELSE IF auto.dir # <<>> /\ ~HasMeta(mt, auto.dir)
                    THEN [ok |-> FALSE, error |-> "NodeNotFound"]
                    ELSE LET parent_type == IF auto.dir = <<>> THEN "root"
                                            ELSE Get(mt[auto.dir], "type", "section")
                         IN IF validate_child(parent_type, node_type)
                            THEN [ok |-> TRUE, dir |-> auto.dir]
                            ELSE [ok |-> FALSE, error |-> "InvalidChildType"]

\* the descriptor create_node writes
NewMeta(title, node_type, slug, clock) ==
    LET m == [title |-> title, type |-> node_type, slug |-> slug,
              created |-> clock, updated |-> clock]
    IN IF node_type = "service"
       THEN Put(m, "service_network", [items |-> <<>>])
       ELSE m

\* The store as one value, and the outcome of a request on it: the status
\* returned, the node created or written, and the store afterwards
Store(ds, mt, dc, idx) == [dirs |-> ds, meta |-> mt, docs |-> dc, index |-> idx]

Failed(st, error) == [status |-> error, node |-> <<>>, st |-> st]

\* mutant: a parent without a descriptor is taken as a section, and mkdir
\* makes the missing directories
create_node_MakesParents(st, clock, parent_path_str, title, node_type) ==
    LET target == CreateTarget(st.meta, parent_path_str, node_type)
        missing == ~target.ok /\ target.error = "NodeNotFound"
    IN IF ~target.ok /\ ~missing THEN Failed(st, target.error)
       ELSE LET parent_dir == IF missing THEN safe_node_path(parent_path_str).dir
                              ELSE target.dir
                slug == ensure_unique_slug(st.dirs, parent_dir, slugify(title))
                node_dir == Append(parent_dir, slug)
                m == NewMeta(title, node_type, slug, clock)
                newMeta == Put(st.meta, node_dir, m)
                newDocs == Put(st.docs, node_dir,
                               ensure_default_files(Get(st.docs, node_dir, EmptyDict), m))
            IN [status |-> "ok", node |-> node_dir,
                st |-> Store(st.dirs \cup {SubSeq(node_dir, 1, n) : n \in 1..Len(node_dir)},
                             newMeta, newDocs, rebuild_index(newMeta, newDocs))]

\* create_node, called by api_create
create_node(st, clock, parent_path_str, title, node_type) ==
    LET target == CreateTarget(st.meta, parent_path_str, node_type)
    IN IF ~target.ok THEN Failed(st, target.error)
       ELSE LET parent_dir == target.dir
                slug == ensure_unique_slug(st.dirs, parent_dir, slugify(title))
                node_dir == Append(parent_dir, slug)
                m == NewMeta(title, node_type, slug, clock)
                newMeta == Put(st.meta, node_dir, m)
                newDocs == Put(st.docs, node_dir,
                               ensure_default_files(Get(st.docs, node_dir, EmptyDict), m))
            IN [status |-> "ok", node |-> node_dir,
                st |-> Store(st.dirs \cup {node_dir}, newMeta, newDocs,
                             rebuild_index(newMeta, newDocs))]

\* mutant: the fixed service documents may be saved on any node
allowed_files_ServiceForAll(m) == {"index.md"} \cup ServiceFileNames

\* allowed_files of api_save for the descriptor loaded
allowed_files(m) ==
    IF Get(m, "type", "None") = "service"
    THEN {"index.md"} \cup ServiceFileNames
    ELSE {"index.md"}

\* mutant: the document is written but the index is not rebuilt
api_save_NoRebuild(st, clock, path_str, file, content) ==
    LET resolved == safe_node_path(path_str)
    IN IF ~resolved.ok THEN Failed(st, resolved.error)
       ELSE IF resolved.dir = <<>> THEN Failed(st, "RootSave")
       ELSE IF ~HasMeta(st.meta, resolved.dir) THEN Failed(st, "NodeNotFound")
       ELSE LET node_dir == resolved.dir
                m == st.meta[node_dir]
            IN IF file \notin allowed_files(m) THEN Failed(st, "BadFileName")
               ELSE [status |-> "ok", node |-> node_dir,
                     st |-> Store(st.dirs,
                                  [st.meta EXCEPT ![node_dir] = update_meta(m, clock)],
                                  Put(st.docs, node_dir, Put(Get(st.docs, node_dir, EmptyDict), file, content)),
                                  st.index)]

\* api_save
api_save(st, clock, path_str, file, content) ==
    LET resolved == safe_node_path(path_str)
    IN IF ~resolved.ok THEN Failed(st, resolved.error)
       ELSE IF resolved.dir = <<>> THEN Failed(st, "RootSave")
       ELSE IF ~HasMeta(st.meta, resolved.dir) THEN Failed(st, "NodeNotFound")
       ELSE LET node_dir == resolved.dir
                m == st.meta[node_dir]
            IN IF file \notin allowed_files(m) THEN Failed(st, "BadFileName")
               ELSE LET newDocs == Put(st.docs, node_dir, Put(Get(st.docs, node_dir, EmptyDict), file, content))
                        newMeta == [st.meta EXCEPT ![node_dir] = update_meta(m, clock)]
                    IN [status |-> "ok", node |-> node_dir,
                        st |-> Store(st.dirs, newMeta, newDocs,
                                     rebuild_index(newMeta, newDocs))]

\* the cleaned record of api_service_network
CleanItem(item) ==
    [name    |-> Get(item, "name", <<>>),
     ip      |-> Get(item, "ip", <<>>),
     mask    |-> Get(item, "mask", <<>>),
     gateway |-> Get(item, "gateway", <<>>),
     dns     |-> Get(item, "dns", <<>>)]

\* one table row of api_service_network
TableRow(item) ==
    <<124, 32>> \o item.name \o <<32, 124, 32>> \o item.ip \o <<32, 124, 32>>
        \o item.mask \o <<32, 124, 32>> \o item.gateway \o <<32, 124, 32>>
        \o item.dns \o <<32, 124>>

\* mutant: the table ends with a newline, as the default document does
RenderTable_TrailingNewline(items) ==
    Join(<<TableHeader, TableSeparator>> \o [i \in 1..Len(items) |-> TableRow(items[i])], NL) \o NL

\* the text api_service_network writes to service-network.md
RenderTable(items) ==
    Join(<<TableHeader, TableSeparator>> \o [i \in 1..Len(items) |-> TableRow(items[i])], NL)

\* api_service_network
api_service_network(st, clock, path_str, items) ==
    LET resolved == safe_node_path(path_str)
    IN IF ~resolved.ok THEN Failed(st, resolved.error)
       ELSE IF ~HasMeta(st.meta, resolved.dir) THEN Failed(st, "NodeNotFound")
       ELSE LET node_dir == resolved.dir
                m == st.meta[node_dir]
            IN IF Get(m, "type", "None") # "service" THEN Failed(st, "NotService")
               ELSE LET cleaned_items == [i \in 1..Len(items) |-> CleanItem(items[i])]
                        network == Put(Get(m, "service_network", EmptyDict),
                                       "items", cleaned_items)
                        newMeta == [st.meta EXCEPT ![node_dir] =
                                        update_meta(Put(m, "service_network", network), clock)]
                        newDocs == Put(st.docs, node_dir,
                                       Put(Get(st.docs, node_dir, EmptyDict),
                                           "service-network.md", RenderTable(cleaned_items)))
                    IN [status |-> "ok", node |-> node_dir,
                        st |-> Store(st.dirs, newMeta, newDocs,
                                     rebuild_index(newMeta, newDocs))]

\* mutant: title and content are joined without the newline
Haystack_NoSeparator(item) == Lower(Get(item, "title", <<>>) \o Get(item, "content", <<>>))

\* the haystack of search for one index entry
Haystack(item) == Lower(Get(item, "title", <<>>) \o NL \o Get(item, "content", <<>>))

\* the results list of search; load_index reads the artifact, which exists
\* from startup on
search(idx, q) ==
    IF q = <<>> THEN <<>>
    ELSE SelectSeq(idx, LAMBDA item : Contains(Haystack(item), Lower(q)))

----------------------------------------------------------------------------
(* Requests drawn by the exploration *)

\* U+00C0 "!" (A with grave, slug "a") and "a 2" (slug "a-2")
Titles == {<<192, 33>>, <<97, 32, 50>>}

NodeTypes == {"company", "dc", "section", "document", "service", "server", "network"}

\* the types a request may name: the seven node types and one that is none
RequestTypes == NodeTypes \cup {"root"}

\* addresses that name no node: "zz" and ".."; and "/", which names the root
OtherAddresses == {<<122, 122>>, <<46, 46>>, <<47>>}

Addresses == {node_relative_path(d) : d \in dirs} \cup {<<>>} \cup OtherAddresses

FileNames == {"index.md", "service-network.md", "notes.md"}

\* "Q" and the empty body
Bodies == {<<81>>, <<>>}

\* a full record with one unknown key, and a record with only a name
FullItem == [name |-> <<101>>, ip |-> <<49>>, mask |-> <<50>>, gateway |-> <<51>>,
             dns |-> <<56>>, vlan |-> <<55>>]
NameOnlyItem == [name |-> <<110>>]

ItemLists == {<<>>, <<FullItem>>, <<FullItem, NameOnlyItem>>, <<NameOnlyItem, FullItem>>}

\* "", U+00C0, "!#" and "!" newline "#"
Queries == {<<>>, <<192>>, <<33, 35>>, <<33, 10, 35>>}

----------------------------------------------------------------------------
(* The state machine *)

Cur == Store(dirs, meta, docs, index)

\* one server process (uvicorn.run of main, one worker): no other position
NoWorkers == <<>>

\* The store after startup on a content root that holds no node
Init ==
    /\ dirs = {}
    /\ meta = EmptyDict
    /\ docs = EmptyDict
    /\ index = <<>>
    /\ now = 0
    /\ ops = 0
    /\ ret = [op |-> "startup", status |-> "ok", node |-> <<>>]
    /\ workers = NoWorkers

\* a handler ran with outcome r
Respond(op, r) ==
    /\ ops < MaxOps
    /\ ops' = ops + 1
    /\ ret' = [op |-> op, status |-> r.status, node |-> r.node]
    /\ dirs' = r.st.dirs
    /\ meta' = r.st.meta
    /\ docs' = r.st.docs
    /\ index' = r.st.index
    /\ UNCHANGED <<now, workers>>

CreateNode(parent_path_str, title, node_type) ==
    Respond("create", create_node(Cur, now, parent_path_str, title, node_type))

ApiSave(path_str, file, content) ==
    Respond("save", api_save(Cur, now, path_str, file, content))

ApiServiceNetwork(path_str, items) ==
    Respond("network", api_service_network(Cur, now, path_str, items))

Search(q) ==
    /\ ops < MaxOps
    /\ ops' = ops + 1
    /\ ret' = [op |-> "search", status |-> "ok", node |-> <<>>, q |-> q,
               results |-> search(index, q)]
    /\ UNCHANGED <<dirs, meta, docs, index, now, workers>>

\* time passes between two requests
Tick ==
    /\ ops < MaxOps
    /\ now' = now + 1
    /\ ops' = ops + 1
    /\ UNCHANGED <<dirs, meta, docs, index, ret, workers>>

Next ==
    \/ \E a \in Addresses, t \in Titles, ty \in RequestTypes : CreateNode(a, t, ty)
    \/ \E a \in Addresses, f \in FileNames, b \in Bodies : ApiSave(a, f, b)
    \/ \E a \in Addresses, l \in ItemLists : ApiServiceNetwork(a, l)
    \/ \E q \in Queries : Search(q)
    \/ Tick

Spec == Init /\ [][Next]_vars

TypeOK ==
    /\ DOMAIN meta = dirs
    /\ DOMAIN docs = dirs
    /\ now \in 0..MaxOps

----------------------------------------------------------------------------
(* Vocabulary of the properties *)

Nodes == DOMAIN meta

Root == <<>>

\* the Type Schema table of the specification
TypeSchema == [
    root     |-> {"company"},
    company  |-> {"dc"},
    dc       |-> {"section", "document", "service", "server", "network"},
    section  |-> {"section", "document", "service", "server", "network"},
    document |-> {},
    service  |-> {},
    server   |-> {},
    network  |-> {} ]

TypeAt(d) == IF d = Root THEN "root" ELSE meta[d].type

IsLeaf(d) == d # Root /\ meta[d].type \in {"document", "service", "server", "network"}

\* where a create addressed at d puts the child
EffectiveParent(d) == IF IsLeaf(d) THEN Parent(d) ELSE d

StoreUnchanged == UNCHANGED <<dirs, meta, docs>>

----------------------------------------------------------------------------
(* C1 *)

\* C1 as stated: a create addressed at a node of type parentType, with a
\* child type the Type Schema does not allow under parentType, fails with
\* InvalidChildType and leaves directories, descriptors and documents as
\* they were.
C1_AddressedParentRejects ==
    [][\A d \in Nodes \cup {Root}, t \in Titles, ct \in RequestTypes :
        (ct \notin TypeSchema[TypeAt(d)] /\ CreateNode(node_relative_path(d), t, ct))
            => (ret'.status = "InvalidChildType" /\ StoreUnchanged)]_vars

\* C1 amended: in every reachable state a create whose effective parent
\* (the addressed node, or the parent of the addressed node when that node is
\* leaf-typed) has type parentType, with a child type the Type Schema does
\* not allow under parentType, fails with InvalidChildType and leaves
\* directories, descriptors, documents and the index as they were.
C1_EffectiveParentRejects ==
    \A d \in Nodes \cup {Root}, t \in Titles, ct \in RequestTypes :
        ct \notin TypeSchema[TypeAt(EffectiveParent(d))]
            => LET r == create_node(Cur, now, node_relative_path(d), t, ct)
               IN r.status = "InvalidChildType" /\ r.st = Cur

\* a create was rejected for its child type while nodes of a container type
\* and of a leaf type exist
C1_Witness ==
    /\ ret.op = "create" /\ ret.status = "InvalidChildType"
    /\ \E d \in Nodes : IsLeaf(d)
    /\ \E d \in Nodes : meta[d].type = "dc"

----------------------------------------------------------------------------
(* C2 *)

Slug(d) == d[Len(d)]

SiblingSlugsUnique ==
    \A d1, d2 \in Nodes :
        (Parent(d1) = Parent(d2) /\ meta[d1].slug = meta[d2].slug) => d1 = d2

SlugIsDirectoryName == \A d \in Nodes : meta[d].slug = Slug(d)

\* the step is a request (the clock stands still) answered as said
Answered(op, status) == now' = now /\ ret'.op = op /\ ret'.status = status

CreateSucceeded == Answered("create", "ok")

\* C2: every successful create returns an address no directory occupied
\* before the call and leaves the descriptor and the documents of every
\* existing node as they were; after every step slugs are unique among
\* direct siblings and the slug of each descriptor is the name of the node's
\* directory.
C2_CreateNeverOverwrites ==
    [][/\ CreateSucceeded =>
            /\ ret'.node \notin dirs
            /\ \A d \in Nodes : meta'[d] = meta[d] /\ docs'[d] = docs[d]
       /\ SiblingSlugsUnique'
       /\ SlugIsDirectoryName']_vars

\* three siblings exist whose titles slugify to the same slug, the last one
\* just created
C2_Witness ==
    /\ ret.op = "create" /\ ret.status = "ok"
    /\ \E d1, d2 \in Nodes :
        /\ d1 # d2 /\ d1 # ret.node /\ d2 # ret.node
        /\ Parent(d1) = Parent(ret.node) /\ Parent(d2) = Parent(ret.node)
        /\ slugify(meta[d1].title) = slugify(meta[ret.node].title)
        /\ slugify(meta[d2].title) = slugify(meta[ret.node].title)

----------------------------------------------------------------------------
(* C3 *)

\* the bodies of the documents of d, in the order the directory lists them
BodiesOf(d) ==
    LET names == SeqOf(DOMAIN docs[d])
    IN [i \in 1..Len(names) |-> docs[d][names[i]]]

\* C3: in every state left by a completed request the persisted index is the
\* rebuild of the current state: one entry per directory with a descriptor,
\* whose path, title, type and updated are those of the descriptor and whose
\* content is the bodies of the node's documents joined by newlines.
C3_IndexIsRebuild ==
    /\ index = rebuild_index(meta, docs)
    /\ Len(index) = Cardinality(Nodes)
    /\ \A d \in Nodes :
        /\ Cardinality({i \in 1..Len(index) : index[i].path = node_relative_path(d)}) = 1
        /\ \A i \in 1..Len(index) :
            index[i].path = node_relative_path(d) =>
                /\ index[i].title = meta[d].title
                /\ index[i].type = meta[d].type
                /\ index[i].updated = meta[d].updated
                /\ index[i].content = Join(BodiesOf(d), <<10>>)

\* the network records of a service node, which holds eight documents, were
\* just saved, and the index lists three nodes
C3_Witness ==
    /\ ret.op = "network" /\ ret.status = "ok"
    /\ Cardinality(DOMAIN docs[ret.node]) = 8
    /\ Len(index) = 3

----------------------------------------------------------------------------
(* C4 *)

\* the table the specification gives for a list of records: header row,
\* separator row, one row per record, joined by newlines
RECURSIVE RowsText(_)
RowsText(items) ==
    IF Len(items) = 0 THEN <<>>
    ELSE <<10, 124, 32>> \o items[1].name \o <<32, 124, 32>> \o items[1].ip
            \o <<32, 124, 32>> \o items[1].mask \o <<32, 124, 32>>
            \o items[1].gateway \o <<32, 124, 32>> \o items[1].dns \o <<32, 124>>
            \o RowsText(Tail(items))

ExpectedTable(items) == TableHeader \o <<10>> \o TableSeparator \o RowsText(items)

\* C4: in every reachable state the body of service-network.md of every
\* service node is exactly the table rendering of that node's
\* service_network.items.
C4_NetworkDocumentInSync ==
    \A d \in Nodes :
        meta[d].type = "service" =>
            docs[d]["service-network.md"] = ExpectedTable(meta[d].service_network.items)

----------------------------------------------------------------------------
(* C5 *)

Suffixed(s, k) == s \o <<45>> \o ToDecimal(k)

\* the smallest k >= 2 for which parent has no entry named s-k
LeastFree(parent, s) ==
    CHOOSE k \in 2..(Cardinality(dirs) + 2) :
        /\ Append(parent, Suffixed(s, k)) \notin dirs
        /\ \A j \in 2..(k - 1) : Append(parent, Suffixed(s, j)) \in dirs

\* the children of parent, other than the one named s, whose titles slugify
\* to s: the earlier creations that collided with s
Earlier(parent, s) ==
    {x \in Nodes : Parent(x) = parent /\ Slug(x) # s /\ slugify(meta[x].title) = s}

\* C5 as stated: when the parent has a child with slug s, a new child whose
\* title slugifies to s gets the slug s-2, and the next such child (the
\* third) gets s-3.
C5_CollisionYieldsS2ThenS3 ==
    [][CreateSucceeded =>
        LET n == ret'.node
            p == Parent(n)
            s == slugify(meta'[n].title)
        IN Append(p, s) \in dirs =>
            /\ Earlier(p, s) = {} => Slug(n) = Suffixed(s, 2)
            /\ Cardinality(Earlier(p, s)) = 1 => Slug(n) = Suffixed(s, 3)]_vars

\* C5 amended: when the parent has a child with slug s, a new child whose
\* title slugifies to s gets the slug s-k for the smallest k >= 2 such that
\* no sibling occupies s-k: s-2 when s-2 is free, s-3 when s-2 is occupied
\* and s-3 is free (as it is at a third such creation).
C5_CollisionYieldsLeastFree ==
    [][CreateSucceeded =>
        LET n == ret'.node
            p == Parent(n)
            s == slugify(meta'[n].title)
        IN Append(p, s) \in dirs =>
            /\ Slug(n) = Suffixed(s, LeastFree(p, s))
            /\ Append(p, Suffixed(s, 2)) \notin dirs => Slug(n) = Suffixed(s, 2)
            /\ (Append(p, Suffixed(s, 2)) \in dirs /\ Append(p, Suffixed(s, 3)) \notin dirs)
                    => Slug(n) = Suffixed(s, 3)]_vars

\* a third child whose title slugifies to s was just created as s-3 next to
\* s and s-2
C5_Witness ==
    /\ ret.op = "create" /\ ret.status = "ok"
    /\ LET n == ret.node
           s == slugify(meta[n].title)
       IN /\ Slug(n) = Suffixed(s, 3)
          /\ Append(Parent(n), s) \in Nodes
          /\ Append(Parent(n), Suffixed(s, 2)) \in Nodes
          /\ slugify(meta[Append(Parent(n), Suffixed(s, 2))].title) = s

----------------------------------------------------------------------------
(* C6 *)

IsPrefix(p, d) == Len(p) <= Len(d) /\ SubSeq(d, 1, Len(p)) = p

\* C6: in every reachable state, for every leaf-typed node L with parent P
\* and every child type t the Type Schema allows under P's type, a create
\* addressed at L with type t succeeds, the new node is a direct child of P
\* and nothing is created inside L's directory; a create addressed at a
\* container-typed node or at the root puts the child in the addressed
\* directory.
C6_AutoRetarget ==
    \A d \in Nodes \cup {Root}, title \in Titles, t \in NodeTypes :
        LET r == create_node(Cur, now, node_relative_path(d), title, t)
        IN IF IsLeaf(d)
           THEN t \in TypeSchema[TypeAt(Parent(d))] =>
                    /\ r.status = "ok"
                    /\ Parent(r.node) = Parent(d)
                    /\ r.st.dirs = dirs \cup {r.node}
                    /\ \A x \in r.st.dirs : IsPrefix(d, x) => x = d
                    /\ r.st.docs[d] = docs[d]
           ELSE r.status = "ok" => Parent(r.node) = d

\* a node was just created next to a leaf-typed sibling: the state a create
\* addressed at that leaf leads to
C6_Witness ==
    /\ ret.op = "create" /\ ret.status = "ok"
    /\ \E l \in Nodes : l # ret.node /\ IsLeaf(l) /\ Parent(l) = Parent(ret.node)

----------------------------------------------------------------------------
(* C7 *)

\* s contains q, compared case-insensitively
ContainsCI(s, q) == Contains(Lower(s), Lower(q))

\* the title of d, or the body of one of its documents, contains q
NodeMatches(d, q) ==
    \/ ContainsCI(meta[d].title, q)
    \/ \E f \in DOMAIN docs[d] : ContainsCI(docs[d][f], q)

\* results holds exactly the rebuilt entries of the nodes in ds, once each
ExactlyEntriesOf(results, ds) ==
    /\ Len(results) = Cardinality(ds)
    /\ {results[i] : i \in 1..Len(results)} = {IndexEntry(meta, docs, d) : d \in ds}

SearchAnswered == Answered("search", "ok")

HasNewline(q) == \E i \in 1..Len(q) : q[i] = 10

\* C7 as stated: a search for q on the rebuilt index returns exactly the
\* entries of the nodes whose title or one of whose document texts contains
\* q, compared case-insensitively; a search for "" returns the empty list.
C7_SearchReturnsMatchingNodes ==
    [][SearchAnswered =>
        /\ ret'.results = search(rebuild_index(meta, docs), ret'.q)
        /\ IF ret'.q = <<>> THEN ret'.results = <<>>
           ELSE ExactlyEntriesOf(ret'.results, {d \in Nodes : NodeMatches(d, ret'.q)})]_vars

\* C7 amended: for every query q that contains no newline character, a search
\* for q on the rebuilt index returns exactly the entries of the nodes whose
\* title or one of whose document texts contains q, compared
\* case-insensitively; a search for "" returns the empty list.
C7_SearchWithoutNewline ==
    [][(SearchAnswered /\ ~HasNewline(ret'.q)) =>
        /\ ret'.results = search(rebuild_index(meta, docs), ret'.q)
        /\ IF ret'.q = <<>> THEN ret'.results = <<>>
           ELSE ExactlyEntriesOf(ret'.results, {d \in Nodes : NodeMatches(d, ret'.q)})]_vars

\* a search for a non-empty query without newline returned some nodes and
\* left others out
C7_Witness ==
    /\ ret.op = "search" /\ ret.q # <<>> /\ ~HasNewline(ret.q)
    /\ Len(ret.results) > 0
    /\ Len(ret.results) < Cardinality(Nodes)

----------------------------------------------------------------------------
(* C8 *)

\* C8: a node that exists before a step exists after it, at the same address,
\* with the type, slug, title and created of its descriptor unchanged.
C8_NodesAreStable ==
    [][\A d \in Nodes :
        /\ d \in dirs'
        /\ d \in DOMAIN meta'
        /\ meta'[d].type = meta[d].type
        /\ meta'[d].slug = meta[d].slug
        /\ meta'[d].title = meta[d].title
        /\ meta'[d].created = meta[d].created]_vars

\* a node was written after the clock moved past its creation, while another
\* node exists
C8_Witness ==
    /\ ret.op \in {"save", "network"} /\ ret.status = "ok"
    /\ meta[ret.node].updated > meta[ret.node].created
    /\ Cardinality(Nodes) > 1

----------------------------------------------------------------------------
(* C9 *)

\* C9: a node is created with created = updated = the current time; every
\* successful document save or service-network save on a node sets that
\* node's updated to the current time; created <= updated holds after every
\* step and updated never decreases; a request changes the descriptor of no
\* node but the one it creates or writes, so a create leaves the updated of
\* the parent and of every ancestor of the new node unchanged.
C9_TimestampsAndFrame ==
    [][/\ CreateSucceeded =>
            /\ meta'[ret'.node].created = now
            /\ meta'[ret'.node].updated = now
            /\ \A d \in Nodes : IsPrefix(d, ret'.node) => meta'[d].updated = meta[d].updated
       /\ (Answered("save", "ok") \/ Answered("network", "ok")) =>
            meta'[ret'.node].updated = now
       /\ \A d \in DOMAIN meta' : meta'[d].created <= meta'[d].updated
       /\ \A d \in Nodes : meta'[d].updated >= meta[d].updated
       /\ \A d \in Nodes : (now' # now \/ d # ret'.node) => meta'[d] = meta[d]]_vars

\* a child was just created under a parent that was last written before the
\* clock moved: the parent's updated is older than the child's created
C9_Witness ==
    /\ ret.op = "create" /\ ret.status = "ok" /\ Len(ret.node) > 1
    /\ meta[Parent(ret.node)].updated < meta[ret.node].created

----------------------------------------------------------------------------
(* C10 *)

\* a submitted record reduced to the five fields, a missing one empty
Reduced(item) ==
    [f \in {"name", "ip", "mask", "gateway", "dns"} |->
        IF f \in DOMAIN item THEN item[f] ELSE <<>>]

ReducedList(items) == [i \in 1..Len(items) |-> Reduced(items[i])]

\* the address names a node of type service
NamesService(a) ==
    \E d \in Nodes : node_relative_path(d) = a /\ meta[d].type = "service"

\* C10: in every reachable state, submitting a list of records to a service
\* node succeeds, sets service_network.items to the list reduced to the five
\* fields in the submitted order, and sets service-network.md to the header
\* row, the separator row and one row per record joined by single newlines
\* with no trailing newline; submitting to any other address fails and
\* leaves descriptors, documents and the index as they were.
C10_NetworkSave ==
    \A a \in Addresses, l \in ItemLists :
        LET r == api_service_network(Cur, now, a, l)
        IN IF NamesService(a)
           THEN LET d == CHOOSE d \in Nodes : node_relative_path(d) = a
                IN /\ r.status = "ok"
                   /\ r.node = d
                   /\ r.st.meta[d].service_network.items = ReducedList(l)
                   /\ r.st.docs[d]["service-network.md"] = ExpectedTable(ReducedList(l))
           ELSE r.status # "ok" /\ r.st = Cur

\* two records were just saved to a service node, the first with only a name
C10_Witness ==
    /\ ret.op = "network" /\ ret.status = "ok"
    /\ Len(meta[ret.node].service_network.items) = 2
    /\ meta[ret.node].service_network.items[1].ip = <<>>
    /\ meta[ret.node].service_network.items[2].ip # <<>>

----------------------------------------------------------------------------
(* The page handlers *)

RECURSIVE CrumbsUp(_, _)
\* the loop of breadcrumb: nearest node first; FALSE in ok when load_meta
\* raises on the way up
CrumbsUp(mt, current) ==
    IF current = <<>> THEN [ok |-> TRUE, crumbs |-> <<>>]
    ELSE IF ~HasMeta(mt, current) THEN [ok |-> FALSE, crumbs |-> <<>>]
    ELSE LET up == CrumbsUp(mt, Parent(current))
         IN [ok |-> up.ok,
             crumbs |-> <<[title |-> Get(mt[current], "title", current[Len(current)]),
                           path  |-> node_relative_path(current)]>> \o up.crumbs]

\* list.reverse()
Reverse(s) == [i \in 1..Len(s) |-> s[Len(s) + 1 - i]]

\* mutant: the crumbs are returned as collected, nearest node first
breadcrumb_NotReversed(mt, path) ==
    LET up == CrumbsUp(mt, path)
    IN [ok |-> up.ok, crumbs |-> up.crumbs]

\* breadcrumb
breadcrumb(mt, path) ==
    LET up == CrumbsUp(mt, path)
    IN [ok |-> up.ok, crumbs |-> Reverse(up.crumbs)]

\* view_node: the page is read from the store after ensure_default_files has
\* run; neither the descriptor nor the index is written
view_node(st, path_str) ==
    LET resolved == safe_node_path(path_str)
    IN IF ~resolved.ok THEN Failed(st, resolved.error)
       ELSE IF resolved.dir = <<>> /\ path_str # <<>> THEN Failed(st, "NodeNotFound")
       ELSE IF resolved.dir = <<>> THEN [status |-> "ok", node |-> <<>>, st |-> st]
       ELSE IF ~HasMeta(st.meta, resolved.dir) THEN Failed(st, "NodeNotFound")
       ELSE LET node_dir == resolved.dir
                m == st.meta[node_dir]
                newDocs == Put(st.docs, node_dir,
                               ensure_default_files(Get(st.docs, node_dir, EmptyDict), m))
                after == Store(st.dirs, st.meta, newDocs, st.index)
            IN IF ~breadcrumb(st.meta, node_dir).ok THEN Failed(after, "NodeNotFound")
               ELSE [status |-> "ok", node |-> node_dir, st |-> after]

\* edit_node
edit_node(st, path_str, file) ==
    LET resolved == safe_node_path(path_str)
    IN IF ~resolved.ok THEN Failed(st, resolved.error)
       ELSE IF resolved.dir = <<>> THEN Failed(st, "RootEdit")
       ELSE IF ~HasMeta(st.meta, resolved.dir) THEN Failed(st, "NodeNotFound")
       ELSE LET node_dir == resolved.dir
                m == st.meta[node_dir]
                newDocs == Put(st.docs, node_dir,
                               ensure_default_files(Get(st.docs, node_dir, EmptyDict), m))
                after == Store(st.dirs, st.meta, newDocs, st.index)
                filename == IF Get(m, "type", "None") = "service" /\ file \notin ServiceFileNames
                            THEN "overview.md" ELSE file
            IN IF filename \notin DOMAIN newDocs[node_dir] THEN Failed(after, "FileNotFound")
               ELSE [status |-> "ok", node |-> node_dir, st |-> after]

ViewNode(path_str) == Respond("view", view_node(Cur, path_str))

EditNode(path_str, file) == Respond("edit", edit_node(Cur, path_str, file))

----------------------------------------------------------------------------
(* Startup on a content root that already holds a node, some of whose      *)
(* documents are missing or were written by hand                           *)

\* the directory "n"
ProvisionedDir == <<<<110>>>>

ProvisionFiles == {"index.md", "overview.md", "service-network.md"}

\* the file sets a directory may hold: any of the names, any of the bodies
FileSets == UNION {[D -> Bodies] : D \in SUBSET ProvisionFiles}

\* startup_event on that content root: ensure_demo_data returns at once,
\* rebuild_index writes the index
InitProvision ==
    /\ dirs = {ProvisionedDir}
    /\ \E t \in Titles, ty \in NodeTypes :
          meta = Put(EmptyDict, ProvisionedDir, NewMeta(t, ty, <<110>>, 0))
    /\ \E files \in FileSets : docs = Put(EmptyDict, ProvisionedDir, files)
    /\ index = rebuild_index(meta, docs)
    /\ now = 0
    /\ ops = 0
    /\ ret = [op |-> "startup", status |-> "ok", node |-> <<>>]
    /\ workers = NoWorkers

NextProvision ==
    \/ \E a \in Addresses : ViewNode(a)
    \/ \E a \in Addresses, f \in FileNames : EditNode(a, f)
    \/ \E a \in Addresses, f \in FileNames, b \in Bodies : ApiSave(a, f, b)
    \/ Tick

SpecProvision == InitProvision /\ [][NextProvision]_vars

----------------------------------------------------------------------------
(* C11 *)

\* the documents ensure_default_files has to provide for a descriptor
RequiredFiles(m) ==
    IF Get(m, "type", "None") = "service"
    THEN {"index.md"} \cup ServiceFileNames
    ELSE {"index.md"}

\* C11: for every node and every state of its documents, ensure_default_files
\* applied twice gives the same documents as applied once; one application
\* keeps every existing document's body (a body written by a document save
\* too) and adds exactly the required documents that are absent.
C11_ProvisionIdempotent ==
    \A d \in Nodes :
        LET once  == ensure_default_files(docs[d], meta[d])
            twice == ensure_default_files(once, meta[d])
        IN /\ twice = once
           /\ \A f \in DOMAIN docs[d] : once[f] = docs[d][f]
           /\ DOMAIN once = (DOMAIN docs[d]) \cup RequiredFiles(meta[d])

\* a page view has provisioned a service node whose overview was saved as "Q"
\* and whose index document was absent: the saved body is kept, the index
\* document now exists
C11_Witness ==
    /\ ret.op = "view" /\ ret.status = "ok"
    /\ meta[ProvisionedDir].type = "service"
    /\ meta[ProvisionedDir].updated > 0
    /\ DOMAIN docs[ProvisionedDir] = {"index.md"} \cup ServiceFileNames
    /\ docs[ProvisionedDir]["overview.md"] = <<81>>
    /\ docs[ProvisionedDir]["index.md"] # <<81>>
    /\ docs[ProvisionedDir]["index.md"] # <<>>

----------------------------------------------------------------------------
(* C12 *)

\* the lines of a text that are not empty
Rows(text) == SelectSeq(Split(text, 10), LAMBDA line : line # <<>>)

SevenFixedDocuments ==
    {"overview.md", "passport.md", "architecture.md", "operations.md",
     "incidents.md", "docs.md", "service-network.md"}

\* C12: in every state reached by create, document save and network save,
\* every node has an index document and every service node has the seven
\* fixed documents as well; and a service node just created has a network
\* document that holds the two header rows and nothing else, and an empty
\* service_network.items list.
C12_DefaultDocuments ==
    /\ \A d \in Nodes :
          /\ "index.md" \in DOMAIN docs[d]
          /\ meta[d].type = "service" => SevenFixedDocuments \subseteq DOMAIN docs[d]
    /\ \A a \in Addresses, t \in Titles :
          LET r == create_node(Cur, now, a, t, "service")
          IN r.status = "ok" =>
                /\ Rows(r.st.docs[r.node]["service-network.md"])
                       = <<TableHeader, TableSeparator>>
                /\ Get(Get(r.st.meta[r.node], "service_network", EmptyDict),
                       "items", "None") = <<>>

\* a service node has just been created: eight documents, no record
C12_Witness ==
    /\ ret.op = "create" /\ ret.status = "ok"
    /\ ret.node \in Nodes
    /\ meta[ret.node].type = "service"
    /\ meta[ret.node].service_network.items = <<>>
    /\ DOMAIN docs[ret.node] = {"index.md"} \cup SevenFixedDocuments
    /\ Rows(docs[ret.node]["service-network.md"]) = <<TableHeader, TableSeparator>>

----------------------------------------------------------------------------
(* The resolver on its own: an address arrives, safe_node_path answers *)

\* longest address drawn
MaxLen == 3

\* "a", "A", ".", "/", "-", "2"
AddressAlphabet == {97, 65, 46, 47, 45, 50}

AddressStrings == UNION {[1..n -> AddressAlphabet] : n \in 0..MaxLen}

InitResolve ==
    /\ dirs = {}
    /\ meta = EmptyDict
    /\ docs = EmptyDict
    /\ index = <<>>
    /\ now = 0
    /\ ops = 0
    /\ \E a \in AddressStrings :
          ret = [op |-> "request", status |-> "pending", node |-> <<>>, address |-> a]
    /\ workers = NoWorkers

\* the first statement of every handler that takes an address
ResolveAddress ==
    /\ ret.op = "request"
    /\ ops < MaxOps
    /\ ops' = ops + 1
    /\ LET r == safe_node_path(ret.address)
       IN ret' = [op |-> "resolve",
                  status |-> IF r.ok THEN "ok" ELSE r.error,
                  node |-> IF r.ok THEN r.dir ELSE <<>>,
                  address |-> ret.address,
                  resolved |-> IF r.ok THEN r.resolved ELSE <<>>]
    /\ UNCHANGED <<dirs, meta, docs, index, now, workers>>

NextResolve == ResolveAddress

SpecResolve == InitResolve /\ [][NextResolve]_vars

----------------------------------------------------------------------------
(* C13 *)

\* lowercase ascii letter, digit or hyphen
AllowedChar(c) == (c >= 97 /\ c <= 122) \/ (c >= 48 /\ c <= 57) \/ c = 45

\* the slash-separated segments of an address, empty ones included
Segments(a) == Split(a, 47)

HasDisallowedSegment(a) ==
    \E i \in 1..Len(Segments(a)) :
        \E k \in 1..Len(Segments(a)[i]) : ~AllowedChar(Segments(a)[i][k])

\* C13: for every address, safe_node_path fails with InvalidAddress when a
\* slash-separated segment holds a character that is not a lowercase ascii
\* letter, a digit or a hyphen; the empty address resolves to the root; and
\* every directory returned is the content root or lies below it.
C13_ResolveIsSafe ==
    ret.op = "resolve" =>
        /\ HasDisallowedSegment(ret.address) => ret.status = "InvalidAddress"
        /\ ret.address = <<>> => ret.status = "ok" /\ ret.node = Root
        /\ ret.status = "ok" =>
              /\ InsideRoot(ret.resolved)
              /\ ret.resolved = CONTENT_ROOT \o ret.node
              /\ \A i \in 1..Len(ret.node) :
                    ret.node[i] # <<46>> /\ ret.node[i] # <<46, 46>>

\* the address "../" was rejected
C13_Witness ==
    /\ ret.op = "resolve"
    /\ ret.address = <<46, 46, 47>>
    /\ ret.status = "InvalidAddress"

----------------------------------------------------------------------------
(* The upload handler, and creates with uploads among them *)

\* re.sub(r"[^a-zA-Z0-9._-]", "_", file.filename)
SanitizeName(name) ==
    [i \in 1..Len(name) |->
        IF \/ IsAlnum(name[i]) \/ (name[i] >= 65 /\ name[i] <= 90)
           \/ name[i] \in {46, 95, 45}
        THEN name[i] ELSE 95]

\* "assets" and "meta.json"
AssetsName == <<97, 115, 115, 101, 116, 115>>
MetaJsonName == <<109, 101, 116, 97, 46, 106, 115, 111, 110>>

\* api_upload: mkdir(parents=True) on the assets directory, then the file is
\* written there; a file stored as meta.json is a descriptor for every
\* later reader.  Neither a descriptor is stamped nor the index rebuilt.
api_upload(st, path_str, filename, parsed) ==
    LET resolved == safe_node_path(path_str)
    IN IF ~resolved.ok THEN Failed(st, resolved.error)
       ELSE IF resolved.dir = <<>> THEN Failed(st, "RootUpload")
       ELSE LET assets_dir == Append(resolved.dir, AssetsName)
                made == {SubSeq(assets_dir, 1, n) : n \in 1..Len(assets_dir)}
                newMeta == IF SanitizeName(filename) = MetaJsonName
                           THEN Put(st.meta, assets_dir, parsed)
                           ELSE st.meta
            IN [status |-> "ok", node |-> assets_dir,
                st |-> Store(st.dirs \cup made, newMeta, st.docs, st.index)]

ApiUpload(path_str, filename, parsed) ==
    Respond("upload", api_upload(Cur, path_str, filename, parsed))

\* "f 1", stored as "f_1"; an upload named meta.json is not drawn
UploadNames == {<<102, 32, 49>>}

\* what json.load returns for the uploaded bytes: {"title": "Q", "type": "section"}
UploadedDescriptor == [title |-> <<81>>, type |-> "section"]

NextUpload ==
    \/ \E a \in Addresses, t \in Titles, ty \in RequestTypes : CreateNode(a, t, ty)
    \/ \E a \in Addresses, f \in UploadNames : ApiUpload(a, f, UploadedDescriptor)

SpecUpload == Init /\ [][NextUpload]_vars

----------------------------------------------------------------------------
(* C14 *)

\* a well-formed address of a location that has no descriptor
NamesNoNode(a) ==
    /\ safe_node_path(a).ok
    /\ safe_node_path(a).dir # Root
    /\ safe_node_path(a).dir \notin Nodes

\* C14: a create whose parent address is well formed and names a location
\* without a descriptor (no such directory, or a directory that holds no
\* descriptor) fails with NodeNotFound, and the directories, descriptors,
\* documents and index stay as they were.
C14_MissingParentRejected ==
    \A a \in Addresses :
        NamesNoNode(a) =>
            \A t \in Titles, ty \in RequestTypes :
                LET r == create_node(Cur, now, a, t, ty)
                IN r.status = "NodeNotFound" /\ r.st = Cur

\* a create was refused with NodeNotFound in a store that holds a directory
\* without a descriptor, on which every create is refused, as it is on "zz",
\* which does not exist
C14_Witness ==
    /\ ret.op = "create" /\ ret.status = "NodeNotFound"
    /\ \E d \in dirs \ Nodes :
          /\ NamesNoNode(node_relative_path(d))
          /\ create_node(Cur, now, node_relative_path(d), <<192, 33>>, "company").status
                = "NodeNotFound"
    /\ <<<<122, 122>>>> \notin dirs
    /\ create_node(Cur, now, <<122, 122>>, <<192, 33>>, "company").status = "NodeNotFound"

----------------------------------------------------------------------------
(* Two server processes on one content root, each running create_node      *)
(* statement by statement.  Inside one process the event loop runs a       *)
(* handler to its end, since create_node never awaits; processes share     *)
(* only the file system.  Every file system call is one step.              *)

WorkerIds == {"w1", "w2"}

\* requests one process serves
MaxRequests == 1

\* U+00C0 "!" and "A": two titles, one slug ("a")
WorkerTitles == {<<192, 33>>, <<65>>}

WorkerTypes == {"company", "dc"}

\* a process between two requests.  The last five fields record what the
\* process met: overlapped, another request was in progress during its own;
\* existed, its mkdir found the directory there; replaced, its descriptor
\* write found a descriptor there; outdated, the processes that wrote to the
\* tree after its scan; lost, those of them whose own index write came
\* before its index write
IdleWorker ==
    [pc |-> "idle", served |-> 0,
     parent |-> <<>>, title |-> <<>>, type |-> "None",
     parent_dir |-> <<>>, candidate |-> <<>>, counter |-> 2, entries |-> <<>>,
     status |-> "None", node |-> <<>>, unindexed |-> FALSE,
     overlapped |-> FALSE, existed |-> FALSE, replaced |-> FALSE,
     outdated |-> {}, lost |-> {}]

InitWorkers ==
    /\ dirs = {}
    /\ meta = EmptyDict
    /\ docs = EmptyDict
    /\ index = <<>>
    /\ now = 0
    /\ ops = 0
    /\ ret = [op |-> "startup", status |-> "ok", node |-> <<>>]
    /\ workers = [w \in WorkerIds |-> IdleWorker]

\* one step of process w, leaving it as next
Step(w, next) ==
    /\ workers' = [workers EXCEPT ![w] = next]
    /\ UNCHANGED <<now, ops>>

Busy(w) == workers[w].pc # "idle"

\* api_create is entered
Accept(w, parent_path_str, title, node_type) ==
    /\ ~Busy(w)
    /\ workers[w].served < MaxRequests
    /\ workers' = [v \in WorkerIds |->
          IF v = w
          THEN [workers[w] EXCEPT !.pc = "resolve", !.served = @ + 1,
                                  !.parent = parent_path_str, !.title = title,
                                  !.type = node_type,
                                  !.status = "None", !.node = <<>>,
                                  !.overlapped = \E u \in WorkerIds \ {w} : Busy(u),
                                  !.existed = FALSE, !.replaced = FALSE]
          ELSE IF Busy(v) THEN [workers[v] EXCEPT !.overlapped = TRUE]
          ELSE workers[v]]
    /\ UNCHANGED <<dirs, meta, docs, index, now, ops, ret>>

\* safe_node_path, auto_parent_path, load_meta, validate_child, slugify
ResolveParent(w) ==
    /\ workers[w].pc = "resolve"
    /\ LET target == CreateTarget(meta, workers[w].parent, workers[w].type)
       IN IF target.ok
          THEN /\ Step(w, [workers[w] EXCEPT !.pc = "check",
                                             !.parent_dir = target.dir,
                                             !.candidate = slugify(workers[w].title),
                                             !.counter = 2])
               /\ UNCHANGED ret
          ELSE /\ Step(w, [workers[w] EXCEPT !.pc = "idle", !.status = target.error,
                                             !.parent = <<>>])
               /\ ret' = [op |-> "create", status |-> target.error, node |-> <<>>]
    /\ UNCHANGED <<dirs, meta, docs, index>>

\* one test of the while loop of ensure_unique_slug
CheckCandidate(w) ==
    /\ workers[w].pc = "check"
    /\ IF Exists(dirs, workers[w].parent_dir, workers[w].candidate)
       THEN Step(w, [workers[w] EXCEPT
                        !.candidate = slugify(workers[w].title) \o <<45>>
                                          \o ToDecimal(workers[w].counter),
                        !.counter = @ + 1])
       ELSE Step(w, [workers[w] EXCEPT !.pc = "mkdir"])
    /\ UNCHANGED <<dirs, meta, docs, index, ret>>

\* the directory process w is creating
NodeDir(w) == Append(workers[w].parent_dir, workers[w].candidate)

\* node_dir.mkdir(parents=True, exist_ok=True)
MakeDir(w) ==
    /\ workers[w].pc = "mkdir"
    /\ dirs' = dirs \cup {NodeDir(w)}
    /\ Step(w, [workers[w] EXCEPT !.pc = "write_meta",
                                  !.existed = NodeDir(w) \in dirs])
    /\ UNCHANGED <<meta, docs, index, ret>>

\* the descriptor process w writes
OwnMeta(w) == NewMeta(workers[w].title, workers[w].type, workers[w].candidate, now)

\* process w has written to the tree: the scans the other processes hold
\* are out of date
AfterWrite(w, next) ==
    /\ workers' = [v \in WorkerIds |->
          IF v = w THEN next
          ELSE IF workers[v].pc = "write_index"
               THEN [workers[v] EXCEPT !.outdated = @ \cup {w}]
               ELSE workers[v]]
    /\ UNCHANGED <<now, ops>>

\* mutant: a descriptor that is already there is left alone
WriteMeta_KeepsExisting(w) ==
    /\ workers[w].pc = "write_meta"
    /\ meta' = IF NodeDir(w) \in DOMAIN meta THEN meta
               ELSE Put(meta, NodeDir(w), OwnMeta(w))
    /\ AfterWrite(w, [workers[w] EXCEPT !.pc = "provision", !.unindexed = TRUE,
                                        !.replaced = NodeDir(w) \in DOMAIN meta])
    /\ UNCHANGED <<dirs, docs, index, ret>>

\* write_json(node_dir / "meta.json", meta)
WriteMeta(w) ==
    /\ workers[w].pc = "write_meta"
    /\ meta' = Put(meta, NodeDir(w), OwnMeta(w))
    /\ AfterWrite(w, [workers[w] EXCEPT !.pc = "provision", !.unindexed = TRUE,
                                        !.replaced = NodeDir(w) \in DOMAIN meta])
    /\ UNCHANGED <<dirs, docs, index, ret>>

\* ensure_default_files(node_dir, meta)
Provision(w) ==
    /\ workers[w].pc = "provision"
    /\ docs' = Put(docs, NodeDir(w),
                   ensure_default_files(Get(docs, NodeDir(w), EmptyDict), OwnMeta(w)))
    /\ AfterWrite(w, [workers[w] EXCEPT !.pc = "scan"])
    /\ UNCHANGED <<dirs, meta, index, ret>>

\* mutant: the scan reads the descriptors but no document
ScanTree_SkipsDocuments(w) ==
    /\ workers[w].pc = "scan"
    /\ Step(w, [workers[w] EXCEPT !.pc = "write_index",
                                  !.entries = rebuild_index(meta, EmptyDict),
                                  !.outdated = {}])
    /\ UNCHANGED <<dirs, meta, docs, index, ret>>

\* rebuild_index up to write_json: the tree is read
ScanTree(w) ==
    /\ workers[w].pc = "scan"
    /\ Step(w, [workers[w] EXCEPT !.pc = "write_index",
                                  !.entries = rebuild_index(meta, docs),
                                  !.outdated = {}])
    /\ UNCHANGED <<dirs, meta, docs, index, ret>>

\* write_json(INDEX_PATH, entries), and the response of api_create
WriteIndex(w) ==
    /\ workers[w].pc = "write_index"
    /\ index' = workers[w].entries
    /\ ret' = [op |-> "create", status |-> "ok", node |-> NodeDir(w)]
    /\ Step(w, [workers[w] EXCEPT
                    !.pc = "idle", !.status = "ok", !.node = NodeDir(w),
                    !.parent = <<>>, !.parent_dir = <<>>, !.candidate = <<>>,
                    !.counter = 2,
                    !.entries = <<>>, !.unindexed = FALSE, !.outdated = {},
                    !.lost = {v \in workers[w].outdated : ~workers[v].unindexed}])
    /\ UNCHANGED <<dirs, meta, docs>>

NextWorkers ==
    \/ \E w \in WorkerIds, a \in {node_relative_path(d) : d \in Nodes} \cup {<<>>},
          t \in WorkerTitles, ty \in WorkerTypes : Accept(w, a, t, ty)
    \/ \E w \in WorkerIds : ResolveParent(w)
    \/ \E w \in WorkerIds : CheckCandidate(w)
    \/ \E w \in WorkerIds : MakeDir(w)
    \/ \E w \in WorkerIds : WriteMeta(w)
    \/ \E w \in WorkerIds : Provision(w)
    \/ \E w \in WorkerIds : ScanTree(w)
    \/ \E w \in WorkerIds : WriteIndex(w)

SpecWorkers == InitWorkers /\ [][NextWorkers]_vars

----------------------------------------------------------------------------
(* C15 *)

\* process w has answered its latest request with success
Created(w) == ~Busy(w) /\ workers[w].status = "ok"

\* C15: two creates that both succeed with the same final address were in
\* progress at the same time, the mkdir of one found the directory the other
\* had made after its own exists() test, the descriptor write of one
\* replaced the descriptor of the other, and the one descriptor left is that
\* of the later writer; two creates of which one ran after the other never
\* end at the same address.
C15_SlugRace ==
    \A u \in WorkerIds, v \in WorkerIds :
        (u # v /\ Created(u) /\ Created(v)) =>
            /\ workers[u].node = workers[v].node =>
                  /\ workers[u].overlapped /\ workers[v].overlapped
                  /\ workers[u].existed # workers[v].existed
                  /\ workers[u].replaced # workers[v].replaced
                  /\ workers[u].replaced =>
                        meta[workers[u].node].title = workers[u].title
            /\ ~(workers[u].overlapped /\ workers[v].overlapped) =>
                  workers[u].node # workers[v].node

\* both processes answered with success and the same address, for two
\* different titles: one node is left, with one of the two titles
C15_Witness ==
    /\ Created("w1") /\ Created("w2")
    /\ workers["w1"].node = workers["w2"].node
    /\ workers["w1"].title # workers["w2"].title
    /\ Cardinality(Nodes) = 1
    /\ workers["w2"].replaced
    /\ meta[workers["w1"].node].title = workers["w2"].title

----------------------------------------------------------------------------
(* C16 *)

AllIdle == \A w \in WorkerIds : ~Busy(w)

IndexedPaths == {index[i].path : i \in 1..Len(index)}

\* C16: when no request is in progress and the persisted index is not what a
\* rebuild would give, some process wrote the index from a scan that another
\* process's write to the tree had outdated, and wrote it after that other
\* process had written the index itself.
C16_StaleIndex ==
    (AllIdle /\ index # rebuild_index(meta, docs)) =>
        \E u \in WorkerIds : workers[u].lost # {}

\* both processes have answered with success, for two different nodes, and
\* the persisted index has no entry for the node of the second
C16_Witness ==
    /\ Created("w1") /\ Created("w2")
    /\ workers["w1"].node # workers["w2"].node
    /\ workers["w1"].lost = {"w2"}
    /\ node_relative_path(workers["w2"].node) \notin IndexedPaths
    /\ node_relative_path(workers["w1"].node) \in IndexedPaths
    /\ index # rebuild_index(meta, docs)

----------------------------------------------------------------------------
(* C17 *)

ContainerTypes == {"company", "dc", "section"}

\* C17: in every state reached by creates, document saves and network saves
\* run one at a time, the parent of every node is the root or a node, and the
\* node's type is one the Type Schema allows under its parent's type; so
\* every top-level node is a company, every child of a company is a dc, and
\* no document, service, server or network node has a child.
C17_Hierarchy ==
    \A d \in Nodes :
        /\ d # Root
        /\ Parent(d) = Root \/ Parent(d) \in Nodes
        /\ meta[d].type \in TypeSchema[TypeAt(Parent(d))]
        /\ Parent(d) = Root => meta[d].type = "company"
        /\ (Parent(d) # Root /\ meta[Parent(d)].type = "company") => meta[d].type = "dc"
        /\ IsLeaf(d) => ~\E c \in Nodes : Parent(c) = d

\* a tree four levels deep: a leaf in a section in a dc in a company
C17_Witness ==
    \E d \in Nodes :
        /\ Len(d) = 4
        /\ IsLeaf(d)
        /\ meta[Parent(d)].type = "section"
        /\ meta[Parent(Parent(d))].type = "dc"
        /\ meta[Parent(Parent(Parent(d)))].type = "company"

----------------------------------------------------------------------------
(* The tree projection *)

\* Python's a < b on two strings: by code point, a proper prefix first
StrLess(a, b) ==
    \E i \in 1..(Len(b)) :
        /\ \A k \in 1..(i - 1) : k <= Len(a) /\ a[k] = b[k]
        /\ i - 1 <= Len(a)
        /\ (i > Len(a) \/ a[i] < b[i])

\* The sort key of build_tree for a folder
TitleKey(mt, d) == Get(mt[d], "title", d[Len(d)])

RECURSIVE SortedByTitle(_, _)
\* list.sort(key=...): stable, an element goes after the elements that are
\* not greater
SortedByTitle(mt, folders) ==
    IF Len(folders) <= 1 THEN folders
    ELSE LET n == Len(folders)
             front == SortedByTitle(mt, SubSeq(folders, 1, n - 1))
             x == folders[n]
             keep == {i \in 1..Len(front) : ~StrLess(TitleKey(mt, x), TitleKey(mt, front[i]))}
             k == Cardinality(keep)
         IN SubSeq(front, 1, k) \o <<x>> \o SubSeq(front, k + 1, Len(front))

\* the folders build_tree lists under current: the directories that hold a
\* descriptor, in the order of iterdir
Folders(ds, mt, current) ==
    SeqOf({d \in ds : Len(d) = Len(current) + 1 /\ Parent(d) = current /\ HasMeta(mt, d)})

RECURSIVE BuildTree(_, _, _, _)
\* build_tree, descending into the nodes whose type is in descend
BuildTree(ds, mt, current, descend) ==
    LET folders == SortedByTitle(mt, Folders(ds, mt, current))
    IN [i \in 1..Len(folders) |->
           LET child == folders[i]
           IN [title |-> Get(mt[child], "title", child[Len(child)]),
               type |-> Get(mt[child], "type", "section"),
               path |-> node_relative_path(child),
               children |-> IF Get(mt[child], "type", "None") \in descend
                            THEN BuildTree(ds, mt, child, descend)
                            ELSE <<>>]]

\* mutant: the tree does not descend into sections
build_tree_SkipsSections(ds, mt, current) ==
    BuildTree(ds, mt, current, {"company", "dc"})

\* build_tree
build_tree(ds, mt, current) ==
    BuildTree(ds, mt, current, {"company", "dc", "section"})

----------------------------------------------------------------------------
(* C18 *)

RECURSIVE TreePaths(_)
\* the paths of a tree, parents before children, one per tree node
TreePaths(tree) ==
    IF tree = <<>> THEN <<>>
    ELSE <<tree[1].path>> \o TreePaths(tree[1].children) \o TreePaths(Tail(tree))

RECURSIVE SiblingsAscending(_)
\* every sibling list of the tree is in ascending order of title
SiblingsAscending(tree) ==
    /\ \A i \in 1..Len(tree), j \in 1..Len(tree) :
          i < j => ~StrLess(tree[j].title, tree[i].title)
    /\ \A i \in 1..Len(tree) : SiblingsAscending(tree[i].children)

NoRepeat(s) == \A i \in 1..Len(s), j \in 1..Len(s) : s[i] = s[j] => i = j

ElementsOf(s) == {s[i] : i \in 1..Len(s)}

\* C18: in every state reached by creates, document saves and network saves,
\* the paths in build_tree of the root are the paths of the entries of
\* rebuild_index, each path occurs once in the tree and once in the entries,
\* and every sibling list of the tree is in ascending order of title.
C18_TreeAgreesWithIndex ==
    LET tree == build_tree(dirs, meta, Root)
        paths == TreePaths(tree)
        entries == rebuild_index(meta, docs)
        entryPaths == [i \in 1..Len(entries) |-> entries[i].path]
    IN /\ ElementsOf(paths) = ElementsOf(entryPaths)
       /\ NoRepeat(paths)
       /\ NoRepeat(entryPaths)
       /\ SiblingsAscending(tree)

\* two companies listed by title ("a 2" before U+00C0 "!"), not by slug
\* ("a" before "a-2"), and a node below a section
C18_Witness ==
    LET tree == build_tree(dirs, meta, Root)
    IN /\ Len(tree) = 2
       /\ tree[1].path = <<97, 45, 50>>
       /\ tree[2].path = <<97>>
       /\ \E i \in 1..2 : tree[i].children # <<>>

----------------------------------------------------------------------------
(* C19 *)

\* the titles of Spec and "!", which slugifies to the fallback "item"
RoundTripTitles == Titles \cup {<<33>>}

\* the crumb of one node
CrumbOf(mt, d) == [title |-> mt[d].title, path |-> node_relative_path(d)]

\* C19: for every create that succeeds, each segment of the returned address
\* matches the resolver's pattern, safe_node_path of the address is the
\* directory created, its descriptor has the title and type asked for, and
\* breadcrumb of it succeeds and lists the ancestors from the top-level one
\* down and then the node.
C19_CreateResolveRoundTrip ==
    \A a \in Addresses, t \in RoundTripTitles, ty \in NodeTypes :
        LET r == create_node(Cur, now, a, t, ty)
        IN r.status = "ok" =>
              LET address == node_relative_path(r.node)
                  segments == Split(address, 47)
                  resolved == safe_node_path(address)
                  crumb == breadcrumb(r.st.meta, r.node)
              IN /\ \A i \in 1..Len(segments) : IsSegment(segments[i])
                 /\ resolved.ok /\ resolved.dir = r.node
                 /\ HasMeta(r.st.meta, resolved.dir)
                 /\ r.st.meta[resolved.dir].title = t
                 /\ r.st.meta[resolved.dir].type = ty
                 /\ crumb.ok
                 /\ crumb.crumbs = [i \in 1..Len(r.node) |->
                                       CrumbOf(r.st.meta, SubSeq(r.node, 1, i))]

\* a node with a suffixed slug ("a-2") was created below a dc and its
\* address resolves to it; in this state a create of "!" next to it succeeds
\* with the fallback slug "item", and that address resolves too
C19_Witness ==
    /\ ret.op = "create" /\ ret.status = "ok"
    /\ Len(ret.node) = 3
    /\ ret.node[3] = <<97, 45, 50>>
    /\ meta[ret.node].title = <<192, 33>>
    /\ safe_node_path(node_relative_path(ret.node)).dir = ret.node
    /\ Len(breadcrumb(meta, ret.node).crumbs) = 3
    /\ LET r == create_node(Cur, now, node_relative_path(Parent(ret.node)), <<33>>, "section")
       IN /\ r.status = "ok"
          /\ r.node[3] = <<105, 116, 101, 109>>
          /\ safe_node_path(node_relative_path(r.node)).dir = r.node

----------------------------------------------------------------------------
(* C20 *)

\* the file names of Spec, and overview.md and meta.json
SaveFileNames == FileNames \cup {"overview.md", "meta.json"}

\* the document names a node of the given type may hold
FixedDocuments(type) ==
    IF type = "service" THEN {"index.md"} \cup SevenFixedDocuments ELSE {"index.md"}

\* C20: a document save succeeds only on a node and only for index.md or,
\* on a service node, one of the seven fixed names; a save at the root, at a
\* location without a descriptor or with another file name fails, and a
\* save that fails leaves directories, descriptors, documents and index as
\* they were; so the documents of every node are among the fixed names of
\* its type.
C20_SaveAcceptance ==
    /\ \A a \in Addresses, f \in SaveFileNames, b \in Bodies :
          LET r == api_save(Cur, now, a, f, b)
              target == safe_node_path(a)
          IN /\ r.status = "ok" =>
                   /\ target.ok /\ target.dir \in Nodes
                   /\ f \in FixedDocuments(meta[target.dir].type)
             /\ (target.ok /\ target.dir = Root) => r.status # "ok"
             /\ (target.ok /\ target.dir \notin Nodes) => r.status # "ok"
             /\ (target.ok /\ target.dir \in Nodes
                    /\ f \notin FixedDocuments(meta[target.dir].type)) => r.status # "ok"
             /\ r.status # "ok" => r.st = Cur
    /\ \A d \in Nodes : DOMAIN docs[d] \subseteq FixedDocuments(meta[d].type)

\* the last save was refused for its file name; the store holds a node that
\* is not a service, on which a save of overview.md is refused and a save of
\* index.md is accepted, and a save at the root is refused
C20_Witness ==
    /\ ret.op = "save" /\ ret.status = "BadFileName"
    /\ \E d \in Nodes : meta[d].type # "service"
                           /\ api_save(Cur, now, node_relative_path(d), "overview.md",
                                       <<81>>).status = "BadFileName"
                           /\ api_save(Cur, now, node_relative_path(d), "index.md",
                                       <<81>>).status = "ok"
    /\ api_save(Cur, now, <<>>, "index.md", <<81>>).status = "RootSave"

====
